---- MODULE Spec2Model ----
(***************************************************************************)
(* Model of purge (src/main.py): a directory-purge tool that deletes       *)
(* files by extension and directories by glob pattern, and logs every      *)
(* deletion attempt as a document of a TinyDB ledger.                      *)
(*                                                                         *)
(* One invocation of the command line tool (purge or query) is a           *)
(* sequential process; pc is its position.  The filesystem, the wall       *)
(* clock and the outcome of every system call are the environment.         *)
(***************************************************************************)
EXTENDS Integers, Sequences, FiniteSets, TLC

VARIABLES
    db,        \* the ledger: the documents of the TinyDB file, in insertion order
    fs,        \* the filesystem below the root: the set of existing paths
    clock,     \* the wall clock, an instant
    pc,        \* position of the running invocation
    exts,      \* purge_files: the extensions not yet globbed
    patterns,  \* purge_files: the directory patterns not yet globbed
    iter,      \* purge_files: what the current glob still has to yield
    stack,     \* purge_dir: the activation records, innermost last
    stdout,    \* what the running invocation has printed
    log,       \* history: the calls the running invocation has made
    start,     \* history: the command line, filesystem and ledger the running
               \* invocation started with
    mark,      \* history: the length of the ledger when the latest purge started
    runs,      \* history: the number of invocations started
    opened,    \* history: the calendar day each invocation opened the ledger on
    owner,     \* history: for each document of the ledger, the invocation that
               \* inserted it
    faults     \* history: the number of system calls the environment failed

vars == <<db, fs, clock, pc, exts, patterns, iter, stack, stdout, log, start, mark,
          runs, opened, owner, faults>>

-----------------------------------------------------------------------------
(* Bounds of the model.                                                    *)

MaxRuns == 2        \* invocations of the tool
MaxClock == 1       \* last instant of the wall clock
TicksPerDay == 1    \* instants of one local calendar day
MaxFaults == 1      \* system calls the environment fails
MaxDocs == 3        \* documents format_query is given when tried by itself

-----------------------------------------------------------------------------
(* The filesystem.  A path is the sequence of names below the root.        *)

Root == <<>>

Universe ==
    { <<"a.tmp">>, <<"b.log">>, <<"d.tmp">>, <<"cache">>,
      <<"cache", "x.tmp">>, <<"cache", "sub">>, <<"cache", "sub", "z.log">> }

DirPaths == { <<"d.tmp">>, <<"cache">>, <<"cache", "sub">> }

Name(p) == p[Len(p)]

Parent(p) == SubSeq(p, 1, Len(p) - 1)

\* Path.is_dir()
is_dir(p, files) == p \in files /\ p \in DirPaths

\* Path.iterdir(), and the listing a one-level glob filters
Children(p, files) == { q \in files : Len(q) = Len(p) + 1 /\ Parent(q) = p }

\* Path.suffix
Suffix(p) ==
    CASE Name(p) \in {"a.tmp", "d.tmp", "x.tmp"} -> ".tmp"
      [] Name(p) \in {"b.log", "z.log"} -> ".log"
      [] OTHER -> ""

\* Path.stat().st_size, in bytes
StSize(p) ==
    CASE Name(p) = "a.tmp" -> 10 * 1024 * 1024
      [] Name(p) = "b.log" -> 5243
      [] Name(p) = "x.tmp" -> 131072
      [] Name(p) = "z.log" -> 0
      [] OTHER -> 4096

\* the glob f"*.{ext}" of line 106 matches on the name alone
ExtGlob(ext) ==
    CASE ext = "tmp" -> ".tmp"
      [] ext = "log" -> ".log"
      [] OTHER -> "?"

\* root_path.glob(f"*.{ext}")
\* (root_path.rglob: the glob, had it descended)
RglobExt(ext, files) == { p \in files : Suffix(p) = ExtGlob(ext) }

GlobExt(ext, files) == { p \in Children(Root, files) : Suffix(p) = ExtGlob(ext) }

\* root_path.glob(pattern), shell-glob semantics on the names of the root
GlobPattern(pattern, files) ==
    CASE pattern = "*" -> Children(Root, files)
      [] pattern = "*.tmp" -> { p \in Children(Root, files) : Suffix(p) = ".tmp" }
      [] OTHER -> { p \in Children(Root, files) : Name(p) = pattern }

\* the command lines of purge the model draws from: its extensions and its
\* --pattern options
PurgeArgs ==
    { [exts |-> <<"log">>, patterns |-> <<>>],
      [exts |-> <<"tmp", "log">>, patterns |-> <<"cache", "*.tmp">>] }

-----------------------------------------------------------------------------
(* The wall clock.                                                         *)

\* timestamp.date() and date.today(): the local calendar day of an instant
Date(ts) == (ts \div TicksPerDay) + 1

Today == Date(clock)

-----------------------------------------------------------------------------
(* Documents.  The error field is absent, True or an errno; Python's True  *)
(* is the bool 1, so a value carries its type.                             *)

EACCES == 13
EPERM == 1

ErrTrue == [type |-> "bool", value |-> 1]

ErrNo(e) == [type |-> "int", value |-> e]

HasError(doc) == "error" \in DOMAIN doc

\* lines 27-34: the candidate document of purge_file
Document(file, ts) ==
    [ts |-> ts, date |-> Date(ts), file |-> file, ext |-> Suffix(file),
     size |-> StSize(file), batch |-> 0]

\* document | {"error": e}
WithError(doc, e) ==
    [ts |-> doc.ts, date |-> doc.date, file |-> doc.file, ext |-> doc.ext,
     size |-> doc.size, batch |-> doc.batch, error |-> e]

-----------------------------------------------------------------------------
(* The outcome of the system calls of one purge_file call.                 *)

StatFailed == [stat |-> "fail", unlink |-> "none", errno |-> 0]

Deleted == [stat |-> "ok", unlink |-> "ok", errno |-> 0]

Denied(e) == [stat |-> "ok", unlink |-> "perm", errno |-> e]

Failed == [stat |-> "ok", unlink |-> "other", errno |-> 0]

\* unlink() of a directory fails: EISDIR on Linux (IsADirectoryError), EPERM
\* on the BSDs and macOS (PermissionError)
Outcomes(file) ==
    IF file \in DirPaths
    THEN {StatFailed, Denied(EPERM), Failed}
    ELSE {StatFailed, Deleted, Denied(EACCES), Failed}

\* an outcome the environment chose to fail
Fault(file, o) == IF file \in DirPaths THEN o = StatFailed ELSE o # Deleted

-----------------------------------------------------------------------------
(* purge_file, lines 23-44.                                                *)

\* Inserted, had line 41 been left out: the failure is raised unlogged
InsertedUnlogged(file, ts, o) ==
    IF o.stat = "fail" THEN <<>>
    ELSE CASE o.unlink = "perm" -> <<WithError(Document(file, ts), ErrNo(o.errno))>>
           [] o.unlink = "other" -> <<>>
           [] OTHER -> <<Document(file, ts)>>

\* Inserted, had line 44 stood in a finally clause instead of the else clause
InsertedFinally(file, ts, o) ==
    IF o.stat = "fail" THEN <<>>
    ELSE CASE o.unlink = "perm" ->
                <<WithError(Document(file, ts), ErrNo(o.errno)), Document(file, ts)>>
           [] o.unlink = "other" ->
                <<WithError(Document(file, ts), ErrTrue), Document(file, ts)>>
           [] OTHER -> <<Document(file, ts)>>

\* the documents one call inserts
Inserted(file, ts, o) ==
    IF o.stat = "fail" THEN <<>>                       \* line 24 raises
    ELSE CASE o.unlink = "perm" -> <<WithError(Document(file, ts), ErrNo(o.errno))>>
           [] o.unlink = "other" -> <<WithError(Document(file, ts), ErrTrue)>>
           [] OTHER -> <<Document(file, ts)>>

\* Raises, had the PermissionError clause re-raised as well
RaisesOnDenied(o) == o.stat = "fail" \/ o.unlink \in {"perm", "other"}

\* Raises, had line 42 been left out
RaisesStatOnly(o) == o.stat = "fail"

\* Raises, had line 24 stood inside the try block
RaisesUnlinkOnly(o) == o.unlink = "other"

\* whether the call ends by raising
Raises(o) == o.stat = "fail" \/ o.unlink = "other"

\* the filesystem after the call
Removed(file, o, files) ==
    IF o.stat = "ok" /\ o.unlink = "ok" THEN files \ {file} ELSE files

Result(o) ==
    CASE o.stat = "fail" -> "stat_failed"
      [] o.unlink = "ok" -> "deleted"
      [] o.unlink = "perm" -> "denied"
      [] OTHER -> "failed"

\* an entry of the history: the call, its caller, its argument, how it ended,
\* the errno it met, the calendar day it took from the clock, and the length
\* of the ledger after it
Event(op, caller, path, res, errno, day, n) ==
    [op |-> op, caller |-> caller, path |-> path, res |-> res, errno |-> errno,
     day |-> day, n |-> n]

purge_file(file, o, caller) ==
    /\ db' = db \o Inserted(file, clock, o)
    /\ owner' = owner \o [i \in DOMAIN Inserted(file, clock, o) |-> runs]
    /\ fs' = Removed(file, o, fs)
    /\ log' = Append(log, Event("purge_file", caller, file, Result(o), o.errno,
                                Date(clock), Len(db')))

-----------------------------------------------------------------------------
(* update_batch_numbers, lines 47-52.                                      *)

\* increment, had the update replaced the document by its batch number
incrementOnly(doc) == [doc EXCEPT !.batch = @ + 1, !.size = 0]

\* increment("batch")
increment(doc) == [doc EXCEPT !.batch = @ + 1]

\* update_batch_numbers, had the update been given no condition
update_all(docs, today) == [i \in DOMAIN docs |-> increment(docs[i])]

\* update_batch_numbers, had the update tested the batch instead of the date
update_latest(docs, today) ==
    [i \in DOMAIN docs |->
        IF docs[i].batch = 0 THEN increment(docs[i]) ELSE docs[i]]

\* update_batch_numbers, had it run twice in an invocation
update_twice(docs, today) ==
    [i \in DOMAIN docs |->
        IF docs[i].date = today THEN increment(increment(docs[i])) ELSE docs[i]]

update_batch_numbers(docs, today) ==
    [i \in DOMAIN docs |->
        IF docs[i].date = today THEN increment(docs[i]) ELSE docs[i]]

-----------------------------------------------------------------------------
(* format_query, lines 64-85.                                              *)

MiB == 1024 * 1024

\* f"{size / 1024 / 1024:.2f}": hundredths of a binary megabyte, the exact
\* quotient rounded half to even
MB(size) ==
    LET q == size \div MiB
        x == (size % MiB) * 100
        h == x \div MiB
        r == x % MiB
    IN  q * 100 + h + (IF 2 * r > MiB \/ (2 * r = MiB /\ h % 2 = 1) THEN 1 ELSE 0)

RECURSIVE SumSize(_)
SumSize(docs) ==
    IF docs = <<>> THEN 0 ELSE Head(docs).size + SumSize(Tail(docs))

\* str.upper()
Upper(ext) ==
    CASE ext = ".tmp" -> ".TMP"
      [] ext = ".log" -> ".LOG"
      [] OTHER -> ext

\* (no_errors, had the scan stopped at the first document with an error)
NoErrorsBeforeFirstError(docs) ==
    LET bad == { i \in DOMAIN docs : HasError(docs[i]) }
    IN  IF bad = {} THEN docs
        ELSE SubSeq(docs, 1, (CHOOSE i \in bad : \A j \in bad : i <= j) - 1)

NoErrors(docs) == SelectSeq(docs, LAMBDA doc : ~HasError(doc))

Errors(docs) == SelectSeq(docs, LAMBDA doc : HasError(doc))

Extensions(docs) == { docs[i].ext : i \in DOMAIN docs }

\* line 78: the documents of one line of the breakdown
Subdocs(docs, extension) == SelectSeq(docs, LAMBDA doc : doc.ext = extension)

Line(label, docs) == [label |-> label, count |-> Len(docs), mb |-> MB(SumSize(docs))]

\* what format_query prints: the "Deleted" line, the line of each extension,
\* the "Errors" line; a line not printed is an empty sequence
format_query(docs, show_errors) ==
    [deleted |-> IF NoErrors(docs) # <<>>
                 THEN <<Line("Deleted", NoErrors(docs))>> ELSE <<>>,
     by_ext  |-> IF NoErrors(docs) # <<>>
                 THEN [e \in { x \in Extensions(docs) : Subdocs(docs, x) # <<>> } |->
                          Line(Upper(e), Subdocs(docs, e))]
                 ELSE <<>>,
     errors  |-> IF show_errors /\ Errors(docs) # <<>>
                 THEN <<Len(Errors(docs))>> ELSE <<>>]

\* lines 55-61
search(docs, today) == SelectSeq(docs, LAMBDA doc : doc.date = today /\ doc.batch = 0)

get_latest_batch(docs, today) == format_query(search(docs, today), TRUE)

-----------------------------------------------------------------------------
(* The state after construction: no invocation has run, the ledger file    *)
(* does not exist yet.                                                     *)

NoOutput == [errors |-> <<>>, report |-> <<>>]

Stopped == {"idle", "exit0", "exit1"}

Init ==
    /\ db = <<>>
    /\ fs = Universe
    /\ clock = 0
    /\ pc = "idle"
    /\ exts = <<>>
    /\ patterns = <<>>
    /\ iter = {}
    /\ stack = <<>>
    /\ stdout = NoOutput
    /\ log = <<>>
    /\ start = [cmd |-> "none", exts |-> <<>>, patterns |-> <<>>, fs |-> Universe,
                db |-> <<>>]
    /\ mark = 0
    /\ runs = 0
    /\ opened = <<>>
    /\ owner = <<>>
    /\ faults = 0

\* the process ends: its memory is gone
Exit(status) ==
    /\ pc' = status
    /\ exts' = <<>>
    /\ patterns' = <<>>
    /\ iter' = {}
    /\ stack' = <<>>

-----------------------------------------------------------------------------
(* open_database, lines 119-128: a new invocation opens the ledger and     *)
(* renumbers the batches of today.                                         *)

open_database(caller) ==
    /\ pc \in Stopped
    /\ runs < MaxRuns
    /\ runs' = runs + 1
    /\ opened' = Append(opened, Today)
    /\ db' = update_batch_numbers(db, Today)
    /\ log' = <<Event("update_batch_numbers", caller, Root, "", 0, Today, Len(db))>>
    /\ UNCHANGED <<owner, faults>>

\* the query command, lines 138-154
query ==
    /\ open_database("query")
    /\ start' = [cmd |-> "query", exts |-> <<>>, patterns |-> <<>>, fs |-> fs, db |-> db]
    /\ UNCHANGED mark
    /\ stdout' = [errors |-> <<>>, report |-> <<format_query(db', TRUE)>>]
    /\ Exit("exit0")
    /\ UNCHANGED <<fs, clock>>

\* the purge command, lines 185-188: up to the call of purge_files
purge(e, p) ==
    /\ open_database("purge")
    /\ start' = [cmd |-> "purge", exts |-> e, patterns |-> p, fs |-> fs, db |-> db]
    /\ mark' = Len(db)
    /\ stdout' = NoOutput
    /\ pc' = "files"
    /\ exts' = e
    /\ patterns' = p
    /\ iter' = {}
    /\ stack' = <<>>
    /\ UNCHANGED <<fs, clock>>

-----------------------------------------------------------------------------
(* purge_files, lines 101-116.  pc = "files" is the loop of lines 105-109, *)
(* pc = "dirs" the loop of lines 112-116; iter = {} says that the inner    *)
(* loop has run out.                                                       *)

\* (a loop over reversed(exts))
NextExtReversed ==
    /\ pc = "files"
    /\ iter = {}
    /\ exts # <<>>
    /\ iter' = GlobExt(exts[Len(exts)], fs)
    /\ exts' = SubSeq(exts, 1, Len(exts) - 1)
    /\ UNCHANGED <<db, fs, clock, pc, patterns, stack, stdout, log, start, mark, runs, opened, owner, faults>>

\* lines 105-106: the next extension is globbed
NextExt ==
    /\ pc = "files"
    /\ iter = {}
    /\ exts # <<>>
    /\ iter' = GlobExt(Head(exts), fs)
    /\ exts' = Tail(exts)
    /\ UNCHANGED <<db, fs, clock, pc, patterns, stack, stdout, log, start, mark, runs, opened, owner, faults>>

\* lines 108-109: purge_file on the next match, in the order the glob yields
ExtFile(file, o) ==
    /\ pc = "files"
    /\ file \in iter
    /\ Fault(file, o) => faults < MaxFaults
    /\ faults' = IF Fault(file, o) THEN faults + 1 ELSE faults
    /\ purge_file(file, o, "purge_files")
    /\ IF Raises(o)
       THEN Exit("exit1")
       ELSE /\ iter' = iter \ {file}
            /\ UNCHANGED <<pc, exts, patterns, stack>>
    /\ UNCHANGED <<clock, stdout, start, mark, runs, opened>>

\* both loops of purge_files have run out
Returned == pc \in {"files", "dirs"} /\ iter = {} /\ exts = <<>> /\ patterns = <<>>

\* lines 112-113: the extensions are done, the next pattern is globbed
NextPattern ==
    /\ pc \in {"files", "dirs"}
    /\ iter = {}
    /\ exts = <<>>
    /\ patterns # <<>>
    /\ pc' = "dirs"
    /\ iter' = GlobPattern(Head(patterns), fs)
    /\ patterns' = Tail(patterns)
    /\ UNCHANGED <<db, fs, clock, exts, stack, stdout, log, start, mark, runs, opened, owner, faults>>

\* lines 190-191: purge_files has returned, the summary is printed
Summary ==
    /\ Returned
    /\ stdout' = [stdout EXCEPT !.report = <<get_latest_batch(db, Today)>>]
    /\ log' = Append(log, Event("get_latest_batch", "purge", Root, "", 0, Today, Len(db)))
    /\ Exit("exit0")
    /\ UNCHANGED <<db, fs, clock, start, mark, runs, opened, owner, faults>>

\* (a purge_dir that does not descend: only the files are listed)
FrameFilesOnly(path, files) ==
    [path |-> path, todo |-> { c \in Children(path, files) : ~is_dir(c, files) }]

\* the activation record of purge_dir(path): line 89 lists the directory
Frame(path, files) == [path |-> path, todo |-> Children(path, files)]

\* lines 113-116: the next match; a directory is handed to purge_dir
NextDir(dir) ==
    /\ pc = "dirs"
    /\ dir \in iter
    /\ iter' = iter \ {dir}
    /\ IF is_dir(dir, fs)
       THEN pc' = "purge_dir" /\ stack' = <<Frame(dir, fs)>>
       ELSE UNCHANGED <<pc, stack>>
    /\ UNCHANGED <<db, fs, clock, exts, patterns, stdout, log, start, mark, runs, opened, owner, faults>>

-----------------------------------------------------------------------------
(* purge_dir, lines 88-98.                                                 *)

Top == stack[Len(stack)]

Pop == SubSeq(stack, 1, Len(stack) - 1)

\* lines 90-91: a child that is a directory is recursed into
DirChildDir(child) ==
    /\ pc = "purge_dir"
    /\ child \in Top.todo
    /\ is_dir(child, fs)
    /\ stack' = Append([stack EXCEPT ![Len(stack)].todo = @ \ {child}], Frame(child, fs))
    /\ UNCHANGED <<db, fs, clock, pc, exts, patterns, iter, stdout, log, start, mark, runs, opened, owner, faults>>

\* lines 92-93: any other child is handed to purge_file
DirChildFile(child, o) ==
    /\ pc = "purge_dir"
    /\ child \in Top.todo
    /\ ~is_dir(child, fs)
    /\ Fault(child, o) => faults < MaxFaults
    /\ faults' = IF Fault(child, o) THEN faults + 1 ELSE faults
    /\ purge_file(child, o, "purge_dir")
    /\ IF Raises(o)
       THEN Exit("exit1")
       ELSE /\ stack' = [stack EXCEPT ![Len(stack)].todo = @ \ {child}]
            /\ UNCHANGED <<pc, exts, patterns, iter>>
    /\ UNCHANGED <<clock, stdout, start, mark, runs, opened>>

ENOTEMPTY == 39

\* rmdir(): fails on a directory that is not empty, and may be denied
RmdirErrnos(path, files) ==
    IF Children(path, files) # {} THEN {ENOTEMPTY} ELSE {0, EACCES}

\* (an rmdir outside the try of lines 95-98: its failure ends the invocation)
RmdirUncaught(errno) ==
    /\ pc = "purge_dir"
    /\ Top.todo = {}
    /\ errno \in RmdirErrnos(Top.path, fs)
    /\ errno = EACCES => faults < MaxFaults
    /\ faults' = IF errno = EACCES THEN faults + 1 ELSE faults
    /\ fs' = IF errno = 0 THEN fs \ {Top.path} ELSE fs
    /\ log' = Append(log, Event("rmdir", "purge_dir", Top.path,
                                IF errno = 0 THEN "removed" ELSE "failed", errno, 0,
                                Len(db)))
    /\ IF errno = 0
       THEN /\ stack' = Pop
            /\ pc' = IF Len(stack) = 1 THEN "dirs" ELSE "purge_dir"
            /\ UNCHANGED <<exts, patterns, iter>>
       ELSE Exit("exit1")
    /\ UNCHANGED <<db, clock, stdout, start, mark, runs, opened, owner>>

\* lines 95-98: the directory is removed, or the failure printed; purge_dir
\* returns to its caller
Rmdir(errno) ==
    /\ pc = "purge_dir"
    /\ Top.todo = {}
    /\ errno \in RmdirErrnos(Top.path, fs)
    /\ errno = EACCES => faults < MaxFaults
    /\ faults' = IF errno = EACCES THEN faults + 1 ELSE faults
    /\ fs' = IF errno = 0 THEN fs \ {Top.path} ELSE fs
    /\ stdout' = IF errno = 0 THEN stdout
                 ELSE [stdout EXCEPT !.errors = Append(@, [path |-> Top.path, errno |-> errno])]
    /\ log' = Append(log, Event("rmdir", "purge_dir", Top.path,
                                IF errno = 0 THEN "removed" ELSE "failed", errno, 0,
                                Len(db)))
    /\ stack' = Pop
    /\ pc' = IF Len(stack) = 1 THEN "dirs" ELSE "purge_dir"
    /\ UNCHANGED <<db, clock, exts, patterns, iter, start, mark, runs, opened, owner>>

-----------------------------------------------------------------------------
(* The environment: time passes.                                           *)

\* (the clock is followed as long as an invocation can still read it)
Tick ==
    /\ clock < MaxClock
    /\ pc \notin Stopped \/ runs < MaxRuns
    /\ clock' = clock + 1
    /\ UNCHANGED <<db, fs, pc, exts, patterns, iter, stack, stdout, log, start, mark, runs, opened, owner, faults>>

Next ==
    \/ query
    \/ \E a \in PurgeArgs : purge(a.exts, a.patterns)
    \/ NextExt
    \/ \E file \in Universe : \E o \in Outcomes(file) : ExtFile(file, o)
    \/ Summary
    \/ NextPattern
    \/ \E dir \in Universe : NextDir(dir)
    \/ \E child \in Universe : DirChildDir(child)
    \/ \E child \in Universe : \E o \in Outcomes(child) : DirChildFile(child, o)
    \/ \E errno \in {0, EACCES, ENOTEMPTY} : Rmdir(errno)
    \/ Tick

Spec == Init /\ [][Next]_vars

-----------------------------------------------------------------------------
(* format_query by itself: it is given the documents of a ledger in any    *)
(* order the storage may return them.                                      *)

\* documents as purge_file inserts them
DocPool ==
    { Document(<<"a.tmp">>, 0), Document(<<"b.log">>, 0),
      Document(<<"cache", "x.tmp">>, 0),
      WithError(Document(<<"a.tmp">>, 0), ErrNo(EACCES)),
      WithError(Document(<<"cache", "sub", "z.log">>, 0), ErrTrue) }

DocLists == UNION { [1..n -> DocPool] : n \in 0..MaxDocs }

Perms(n) == { f \in [1..n -> 1..n] : \A i, j \in 1..n : f[i] = f[j] => i = j }

Permuted(docs, f) == [i \in DOMAIN docs |-> docs[f[i]]]

InitFQ ==
    /\ db \in DocLists
    /\ fs = Universe
    /\ clock = 0
    /\ pc = "format_query"
    /\ exts = <<>>
    /\ patterns = <<>>
    /\ iter = {}
    /\ stack = <<>>
    /\ stdout = NoOutput
    /\ log = <<>>
    /\ start = [cmd |-> "format_query", exts |-> <<>>, patterns |-> <<>>, fs |-> Universe,
                db |-> db]
    /\ mark = 0
    /\ runs = 0
    /\ opened = <<>>
    /\ owner = <<>>
    /\ faults = 0

\* format_query(docs, show_errors = True) on the documents in the order f
FormatPermuted(f) ==
    /\ pc = "format_query"
    /\ db' = Permuted(db, f)
    /\ stdout' = [errors |-> <<>>, report |-> <<format_query(db', TRUE)>>]
    /\ pc' = "exit0"
    /\ UNCHANGED <<fs, clock, exts, patterns, iter, stack, log, start, mark, runs, opened, owner, faults>>

NextFQ == \E f \in Perms(Len(db)) : FormatPermuted(f)

SpecFQ == InitFQ /\ [][NextFQ]_vars

-----------------------------------------------------------------------------
(* Views of the history of the running (or last) invocation.               *)

\* the purge_file calls
Attempts == { k \in DOMAIN log : log[k].op = "purge_file" }

\* the calls of purge_file that got past stat()
Logged == { k \in Attempts : log[k].res # "stat_failed" }

\* the paths handed to purge_file
Attempted == { log[k].path : k \in Attempts }

\* the length of the ledger before call k
Before(k) == IF k > 1 THEN log[k - 1].n ELSE Len(start.db)

IsUnder(q, d) == Len(q) > Len(d) /\ SubSeq(q, 1, Len(d)) = d

\* what the command line asks to delete, given the filesystem it started on:
\* the entries of the root matching an extension, and the files below the
\* directories of the root matching a pattern
ExtScope(st) == UNION { GlobExt(st.exts[i], st.fs) : i \in DOMAIN st.exts }

DirScope(st) ==
    { q \in st.fs \ DirPaths :
        \E i \in DOMAIN st.patterns : \E d \in GlobPattern(st.patterns[i], st.fs) :
            is_dir(d, st.fs) /\ IsUnder(q, d) }

Scope(st) == ExtScope(st) \cup DirScope(st)

\* the documents the invocation has inserted
New == SubSeq(db, Len(start.db) + 1, Len(db))

-----------------------------------------------------------------------------
\* C1: after update_batch_numbers has run, every document the ledger held
\* before whose date is today (the day update_batch_numbers read) has its
\* batch one greater, and every other document is unchanged in every field.
C1_Renumbered ==
    log # <<>> =>
        /\ Len(db) >= Len(start.db)
        /\ \A i \in DOMAIN start.db :
              db[i] = IF start.db[i].date = log[1].day
                      THEN [start.db[i] EXCEPT !.batch = @ + 1]
                      ELSE start.db[i]

C1_Witness ==
    /\ log # <<>>
    /\ \E i, j \in DOMAIN start.db :
          /\ start.db[i].date = log[1].day
          /\ start.db[j].date # log[1].day
          /\ Len(db) >= Len(start.db)
          /\ db[i].batch = start.db[i].batch + 1
          /\ db[j] = start.db[j]

\* C2: on one calendar day, at the end of every invocation (purge or query)
\* the documents with date = today and batch = 0 are exactly the documents
\* written by the most recent purge of that day.
C2_BatchZeroIsLatestPurge ==
    (pc \in {"exit0", "exit1"} /\ Today = Date(0)) =>
        { i \in DOMAIN db : db[i].date = Today /\ db[i].batch = 0 } = (mark + 1)..Len(db)

\* C3: after a purge in which N files are attempted and every deletion
\* succeeds, exactly N new documents exist, each with batch = 0, date = today
\* (the day the invocation ends on, which its summary reads) and no error.
C3_AllDeleted ==
    (pc = "exit0" /\ start.cmd = "purge" /\ \A k \in Attempts : log[k].res = "deleted") =>
        /\ Len(db) = Len(start.db) + Cardinality(Attempts)
        /\ \A i \in DOMAIN New :
              /\ New[i].batch = 0
              /\ New[i].date = log[Len(log)].day
              /\ ~HasError(New[i])

\* C4: a deletion denied with errno E inserts a document with error = E and
\* does not raise: an invocation is aborted only by a failed stat() or an
\* unclassified failure, and an invocation that is not aborted attempts every
\* entry the command line asks for and prints its summary.
C4_DeniedContinues ==
    /\ \A k \in Attempts :
          log[k].res = "denied" =>
              /\ log[k].n = Before(k) + 1
              /\ log[k].n \in DOMAIN db
              /\ db[log[k].n].file = log[k].path
              /\ HasError(db[log[k].n])
              /\ db[log[k].n].error = ErrNo(log[k].errno)
              /\ log[k].errno \in {EACCES, EPERM}
              /\ ~(k = Len(log) /\ pc \in Stopped)
    /\ pc = "exit1" => log[Len(log)].res \in {"stat_failed", "failed"}
    /\ (pc = "exit0" /\ start.cmd = "purge") =>
          /\ stdout.report # <<>>
          /\ Attempted = Scope(start)

C4_Witness ==
    /\ pc = "exit0"
    /\ stdout.report # <<>>
    /\ \E k, j \in Attempts :
          /\ k < j
          /\ log[k].res = "denied"
          /\ log[k].path \notin DirPaths
          /\ log[k].caller = log[j].caller
    /\ \E k, j \in Attempts :
          /\ log[k].res = "denied"
          /\ log[k].caller = "purge_files"
          /\ log[j].caller = "purge_dir"

\* C5: a deletion that fails otherwise inserts a document with error = True
\* before the failure propagates; it is the last call of the invocation and
\* its document the last the invocation inserts: nothing else is attempted,
\* removed or printed.
C5_FailedAborts ==
    \A k \in Attempts :
        log[k].res = "failed" =>
            /\ k = Len(log)
            /\ pc = "exit1"
            /\ log[k].n = Before(k) + 1
            /\ Len(db) = log[k].n
            /\ db[Len(db)].file = log[k].path
            /\ HasError(db[Len(db)])
            /\ db[Len(db)].error = ErrTrue
            /\ stdout.report = <<>>

C5_Witness ==
    \E k \in Attempts :
        /\ log[k].res = "failed"
        /\ log[k].path \notin DirPaths
        /\ log[k].caller = "purge_files"
        /\ ExtScope(start) \ Attempted # {}
        /\ DirScope(start) # {}
        /\ pc = "exit1"

\* C6: when a file of a pattern-matched directory fails to delete with an
\* unclassified error, its document is logged with error = True, no sibling
\* is processed afterwards, and the rmdir of that directory is then attempted
\* and fails.
C6_RmdirAfterFailure ==
    \A k \in Attempts :
        (log[k].res = "failed" /\ log[k].caller = "purge_dir" /\ pc \in Stopped) =>
            /\ k \in Logged
            /\ \E j \in DOMAIN log :
                  /\ j > k
                  /\ log[j].op = "rmdir"
                  /\ log[j].path = Parent(log[k].path)
                  /\ log[j].res = "failed"

\* C6, amended: the document is logged with error = True, no sibling is
\* processed afterwards, and no rmdir of that directory or of a directory
\* around it is attempted: the failure leaves purge_dir and ends the
\* invocation, the directories stay and nothing is printed about them.
C6_NoRmdirAfterFailure ==
    \A k \in Attempts :
        (log[k].res = "failed" /\ log[k].caller = "purge_dir") =>
            /\ k = Len(log)
            /\ pc = "exit1"
            /\ Len(db) = Before(k) + 1
            /\ db[Len(db)].file = log[k].path
            /\ HasError(db[Len(db)]) /\ db[Len(db)].error = ErrTrue
            /\ \A j \in DOMAIN log :
                  log[j].op = "rmdir" => ~IsUnder(log[k].path, log[j].path)
            /\ \A d \in DirPaths : IsUnder(log[k].path, d) => d \in fs
            /\ \A m \in DOMAIN stdout.errors :
                  ~IsUnder(log[k].path, stdout.errors[m].path)

C6_Witness ==
    \E k \in Attempts :
        /\ log[k].res = "failed"
        /\ log[k].caller = "purge_dir"
        /\ pc = "exit1"
        /\ \E q \in Children(Parent(log[k].path), fs) :
              /\ q # log[k].path
              /\ q \notin Attempted
              /\ \A j \in DOMAIN log : log[j].path # q

\* C7: every purge_file call whose stat() succeeds inserts exactly one
\* document, the one of its file, whether the deletion succeeds, is denied
\* or fails; the ledger grows by nothing else during an invocation.
C7_OneDocumentPerCall ==
    /\ \A k \in Logged :
          /\ log[k].n = Before(k) + 1
          /\ log[k].n \in DOMAIN db
          /\ db[log[k].n].file = log[k].path
          /\ HasError(db[log[k].n]) = (log[k].res # "deleted")
    /\ log # <<>> => Len(db) = log[Len(log)].n
    /\ Len(db) = Len(start.db) + Cardinality(Logged)

C7_Witness ==
    /\ \E k \in Logged : log[k].res = "deleted"
    /\ \E k \in Logged : log[k].res = "denied"
    /\ \E k \in Logged : log[k].res = "failed"

\* C8: a purge_file call whose stat() fails inserts no document and deletes
\* nothing; the failure ends the invocation: the ledger is as the call found
\* it and no later file is attempted.
C8_StatFailureAborts ==
    \A k \in Attempts :
        log[k].res = "stat_failed" =>
            /\ k = Len(log)
            /\ pc = "exit1"
            /\ log[k].n = Before(k)
            /\ Len(db) = Before(k)
            /\ log[k].path \in fs
            /\ stdout.report = <<>>

C8_Witness ==
    \E k \in Attempts :
        /\ log[k].res = "stat_failed"
        /\ pc = "exit1"
        /\ Len(db) > Len(start.db)
        /\ Scope(start) \ Attempted # {}

\* two documents that differ in batch at most
SameContent(a, b) ==
    /\ a.ts = b.ts /\ a.date = b.date /\ a.file = b.file
    /\ a.ext = b.ext /\ a.size = b.size
    /\ HasError(a) = HasError(b)
    /\ HasError(a) => a.error = b.error

\* C9: the ledger is append-only: no step removes a document, and no step
\* changes the ts, date, file, ext, size or error of a document; only batch
\* changes.
C9_AppendOnly ==
    [][/\ Len(db') >= Len(db)
       /\ \A i \in DOMAIN db : SameContent(db[i], db'[i])]_vars

C9_Witness ==
    /\ Len(db) >= 2
    /\ \E i \in DOMAIN db : db[i].batch >= 1 /\ HasError(db[i])
    /\ \E i \in DOMAIN db : db[i].batch = 0

\* the documents the report of a finished invocation was made from
Printed == IF start.cmd = "query" THEN db ELSE search(db, log[Len(log)].day)

\* C10: when format_query is given at least one document without error, the
\* count and the size it reports for each extension are those of the
\* documents without error having that extension, so that the counts and
\* the sizes of the extensions add up to the reported totals.
C10_PerExtension ==
    (pc = "exit0" /\ stdout.report # <<>> /\ NoErrors(Printed) # <<>>) =>
        \A e \in DOMAIN stdout.report[1].by_ext :
            /\ stdout.report[1].by_ext[e].count = Len(NoErrors(Subdocs(Printed, e)))
            /\ stdout.report[1].by_ext[e].mb = MB(SumSize(NoErrors(Subdocs(Printed, e))))

-----------------------------------------------------------------------------
\* C11 (as the specification states it): no directory is ever handed to
\* purge_file, and no document of the ledger names a directory; a directory
\* of the root whose name matches *.<ext> is skipped by the extension pass.
C11_OnlyFiles ==
    /\ \A k \in Attempts : log[k].path \notin DirPaths
    /\ \A i \in DOMAIN db : db[i].file \notin DirPaths

-----------------------------------------------------------------------------
\* the calls of the extension pass, and the calls of the pattern pass
ExtPass == { k \in DOMAIN log : log[k].caller = "purge_files" }

DirPass == { k \in DOMAIN log : log[k].caller = "purge_dir" }

\* the position on the command line of the extension that matched call k
ExtIndex(k) ==
    CHOOSE i \in DOMAIN start.exts : Suffix(log[k].path) = ExtGlob(start.exts[i])

\* the position on the command line of the pattern that led to call k
PatIndex(k) ==
    LET top == <<log[k].path[1]>>
    IN  CHOOSE i \in DOMAIN start.patterns : top \in GlobPattern(start.patterns[i], {top})

\* the place of call k in the order of the command line: the extensions, then
\* the patterns
Rank(k) ==
    IF log[k].caller = "purge_files" THEN ExtIndex(k) ELSE Len(start.exts) + PatIndex(k)

\* C12: within an invocation every deletion attempt of the extension pass
\* precedes every deletion attempt and every directory removal of the
\* pattern pass; the extensions are processed in the order given, and then
\* the patterns in the order given: after the renumbering and before the
\* summary the history holds nothing but these calls, in the order of Rank.
C12_ExtensionsThenPatterns ==
    /\ \A k \in 2..Len(log) :
          \/ log[k].op = "get_latest_batch" /\ k = Len(log)
          \/ log[k].caller \in {"purge_files", "purge_dir"}
    /\ LET rank == [k \in (DOMAIN log) \ {1} |->
                        IF log[k].op = "get_latest_batch" THEN 0 ELSE Rank(k)]
       IN  \A k \in 2..(Len(log) - 1) :
               log[k + 1].op # "get_latest_batch" => rank[k] <= rank[k + 1]

C12_Witness ==
    /\ pc = "exit0"
    /\ \E k, j \in ExtPass : ExtIndex(k) = 1 /\ ExtIndex(j) = 2
    /\ \E k, j \in DirPass :
            /\ PatIndex(k) = 1 /\ PatIndex(j) = 2
            /\ log[k].op = "rmdir" /\ log[j].op = "rmdir"

-----------------------------------------------------------------------------
\* the returns of purge_dir: each one ends with its rmdir
Rmdirs == { j \in DOMAIN log : log[j].op = "rmdir" }

\* the calls made during the purge_dir call that returned at j
Within(j) == { k \in DOMAIN log : k < j /\ IsUnder(log[k].path, log[j].path) }

\* the files, and the directories, below d when the invocation started
TreeFiles(d) == { q \in start.fs \ DirPaths : IsUnder(q, d) }

TreeDirs(d) == { q \in start.fs \cap DirPaths : IsUnder(q, d) }

\* every file deletion among the calls w succeeded
CleanRun(w) ==
    \A k \in w : log[k].op = "purge_file" => log[k].res = "deleted"

\* the operating system refused no rmdir of an emptied directory among w
Undenied(w) ==
    \A i \in w : log[i].op = "rmdir" => log[i].errno # EACCES

\* the ledger before the first of the calls w of the purge_dir call that
\* returned at j
Entry(j, w) == Before(CHOOSE k \in w \cup {j} : \A i \in w : k <= i)

\* the purge_dir call that returned at j, having made the calls w, left the
\* tree gone, with one clean document per file and nothing else
Gone(j, w) ==
    LET d == log[j].path
        e == Entry(j, w)
    IN
    /\ log[j].res = "removed"
    /\ \A q \in fs : q # d /\ ~IsUnder(q, d)
    /\ \A q \in TreeFiles(d) :
          /\ Cardinality({ k \in w : log[k].op = "purge_file" /\ log[k].path = q }) = 1
          /\ \A k \in w :
                (log[k].op = "purge_file" /\ log[k].path = q) =>
                    /\ log[k].n = Before(k) + 1
                    /\ db[log[k].n].file = q
                    /\ ~HasError(db[log[k].n])
    /\ log[j].n - e = Cardinality(TreeFiles(d))
    /\ \A i \in (e + 1)..log[j].n : db[i].file \notin DirPaths
    /\ \A q \in TreeDirs(d) : \E i \in w : log[i].op = "rmdir" /\ log[i].path = q
    /\ \A i \in w \cup {j} :
          log[i].op = "rmdir" =>
              \A k \in (i + 1)..Len(log) : ~IsUnder(log[k].path, log[i].path)
    /\ \A m \in DOMAIN stdout.errors :
          stdout.errors[m].path # d /\ ~IsUnder(stdout.errors[m].path, d)

-----------------------------------------------------------------------------
\* the rmdir calls that failed, in the order they were made
FailedRmdirs == SelectSeq(log, LAMBDA e : e.op = "rmdir" /\ e.res = "failed")

\* the directories the patterns of the command line reach
PatternDirs(st) ==
    { q \in st.fs \cap DirPaths :
        \E i \in DOMAIN st.patterns : \E d \in GlobPattern(st.patterns[i], st.fs) :
            is_dir(d, st.fs) /\ (q = d \/ IsUnder(q, d)) }

\* C14: a failed removal of a directory in purge_dir is printed and is not
\* fatal: it inserts no document, it does not end the invocation, and an
\* invocation that ends normally has attempted every file below the matched
\* directories and the removal of every directory there, the directory
\* enclosing a failed one after it, and has printed its summary.
C14_RmdirFailureContinues ==
    /\ LET failed == FailedRmdirs
       IN  /\ Len(stdout.errors) = Len(failed)
           /\ \A m \in DOMAIN stdout.errors :
                 /\ stdout.errors[m].path = failed[m].path
                 /\ stdout.errors[m].errno = failed[m].errno
    /\ \A j \in Rmdirs :
          log[j].res = "failed" =>
              /\ log[j].n = Before(j)
              /\ log[j].path \in fs
              /\ (j = Len(log)) => pc \notin Stopped
              /\ (pc = "exit0" /\ Parent(log[j].path) # Root) =>
                    \E i \in Rmdirs : i > j /\ log[i].path = Parent(log[j].path)
    /\ (pc = "exit0" /\ start.cmd = "purge") =>
          /\ PatternDirs(start) = { log[j].path : j \in Rmdirs }
          /\ DirScope(start) \subseteq Attempted
          /\ stdout.report # <<>>

C14_Witness ==
    /\ pc = "exit0"
    /\ \E j, i, k \in Rmdirs :
          /\ j < i /\ i < k
          /\ log[j].path = <<"cache", "sub">> /\ log[j].res = "failed"
          /\ log[i].path = <<"cache">> /\ log[i].res = "failed"
          /\ log[k].path = <<"d.tmp">> /\ log[k].res = "removed"

-----------------------------------------------------------------------------
\* C15 (as the specification states it): the documents the summary of a purge
\* is made from, those with date = today and batch = 0, are exactly the
\* documents that invocation inserted, whatever earlier invocations left.
C15_SummaryIsThisRun ==
    (pc = "exit0" /\ start.cmd = "purge") => search(db, log[Len(log)].day) = New

-----------------------------------------------------------------------------
\* the renumberings of the running (or last) invocation
Renumberings == { k \in DOMAIN log : log[k].op = "update_batch_numbers" }

\* C16: in every invocation update_batch_numbers runs exactly once, before
\* any document is inserted: the documents the ledger held on the day it
\* read have their batch raised by exactly one, and every document the
\* invocation inserts comes after it and has batch 0.
C16_RenumberedOnceFirst ==
    log # <<>> =>
        /\ Renumberings = {1}
        /\ log[1].n = Len(start.db)
        /\ Len(db) >= Len(start.db)
        /\ \A i \in DOMAIN start.db :
              db[i].batch = start.db[i].batch + (IF start.db[i].date = log[1].day THEN 1 ELSE 0)
        /\ \A k \in Attempts : k > 1 /\ log[k].n >= Before(k)
        /\ \A i \in DOMAIN New : New[i].batch = 0

C16_Witness ==
    /\ \E i \in DOMAIN start.db : start.db[i].date = log[1].day /\ db[i].batch = 1
    /\ \E i \in DOMAIN start.db : start.db[i].date # log[1].day
    /\ Len(New) >= 2

-----------------------------------------------------------------------------
\* the size of the documents at the positions I, summed in no order
RECURSIVE SizeOf(_, _)
SizeOf(docs, I) ==
    IF I = {} THEN 0
    ELSE LET i == CHOOSE x \in I : TRUE IN docs[i].size + SizeOf(docs, I \ {i})

Clean(docs) == { i \in DOMAIN docs : ~HasError(docs[i]) }

\* C17: for a fixed collection of documents format_query reports the same
\* total count and the same total size of the documents without error, and
\* the same number of errors, in whatever order it is given the documents.
C17_OrderIndependent ==
    (start.cmd = "format_query" /\ pc = "exit0") =>
        LET given == start.db
            out   == stdout.report[1]
        IN  /\ out.deleted = format_query(given, TRUE).deleted
            /\ out.errors = format_query(given, TRUE).errors
            /\ Clean(given) # {} =>
                  /\ out.deleted[1].count = Cardinality(Clean(given))
                  /\ out.deleted[1].mb = MB(SizeOf(given, Clean(given)))
            /\ Clean(given) = {} => out.deleted = <<>>
            /\ Clean(given) # DOMAIN given =>
                  out.errors = <<Cardinality(DOMAIN given \ Clean(given))>>

C17_Witness ==
    /\ start.cmd = "format_query" /\ pc = "exit0"
    /\ Len(db) = MaxDocs
    /\ db # start.db
    /\ HasError(db[1]) /\ ~HasError(db[2]) /\ ~HasError(db[3])
    /\ db[2].size # db[3].size

-----------------------------------------------------------------------------
\* the entries directly in the root whose name matches a requested *.<ext>
FlatMatches(st) ==
    { q \in st.fs : Len(q) = 1 /\ \E i \in DOMAIN st.exts : Suffix(q) = ExtGlob(st.exts[i]) }

\* C18: a purge without directory patterns attempts, deletes and logs nothing
\* but entries directly in the root whose name matches a requested *.<ext>:
\* every other entry, and every directory, stays as it was.
C18_ExtensionPassIsFlat ==
    (start.cmd = "purge" /\ start.patterns = <<>>) =>
        /\ Attempted \subseteq FlatMatches(start)
        /\ \A i \in DOMAIN New : New[i].file \in FlatMatches(start)
        /\ fs \subseteq start.fs
        /\ \A q \in start.fs : (q \notin FlatMatches(start) \/ q \in DirPaths) => q \in fs
        /\ Rmdirs = {}

C18_Witness ==
    /\ start.cmd = "purge" /\ start.patterns = <<>> /\ pc = "exit0"
    /\ \E k \in Attempts : log[k].res = "deleted"
    /\ \E q \in fs \ DirPaths : Len(q) > 1 /\ \E i \in DOMAIN start.exts : Suffix(q) = ExtGlob(start.exts[i])
    /\ \E q \in fs \ DirPaths : Len(q) = 1 /\ q \notin FlatMatches(start)

-----------------------------------------------------------------------------
\* C19 (as the specification states it): within an invocation "today" is one
\* value: the day the renumbering read, the date of every document the
\* invocation inserts and the day the summary read are equal, however the
\* clock advances during the run.
C19_OneToday ==
    /\ \A k \in DOMAIN log :
          (log[k].op \in {"update_batch_numbers", "get_latest_batch"}
             \/ (log[k].op = "purge_file" /\ log[k].res # "stat_failed")) =>
              log[k].day = log[1].day
    /\ \A i, j \in DOMAIN New : New[i].date = New[j].date

-----------------------------------------------------------------------------
\* the invocations that opened the ledger on day d after invocation r
LaterOpens(r, d) == { x \in DOMAIN opened : x > r /\ opened[x] = d }

====
